---- MODULE Spec2Model ----
(***************************************************************************)
(* Upgrade planning of the auxiliary applications of                       *)
(* charmed-openstack-upgrader (cou/apps/auxiliary.py): channel and release *)
(* resolution against the track tables, the component-specific pre-upgrade *)
(* steps, and the plan generator that drives them.                         *)
(*                                                                         *)
(* Strings that the code formats or parses (channels, messages) are        *)
(* sequences of tokens, so that f"{track}/stable" is a concatenation and   *)
(* the track of a channel is what precedes its first "/".                  *)
(***************************************************************************)
EXTENDS Integers, Sequences, FiniteSets, TLC

VARIABLES
    OPENSTACK_TO_TRACK_MAPPING, \* (charm, series, codename) -> list of tracks
    TRACK_TO_OPENSTACK_MAPPING, \* (charm, series, track) -> list of releases
    app,                        \* the deployed application the calls are made on
    ret,                        \* the last call on the application and its outcome
    snapshot,                   \* generate: the deployed applications, as declared
    target_release,             \* generate: the release to upgrade to
    pos,                        \* generate: the application whose steps are derived next
    pre,                        \* generate: the pre-upgrade steps derived so far
    upgrade,                    \* generate: the upgrade steps derived so far
    post,                       \* generate: the post-upgrade steps derived so far
    counts,                     \* generate: the instance count read per hypervisor
    status,                     \* generate: "idle", "planning", "done" or "aborted"
    error,                      \* generate: the error generation was aborted with
    plan,                       \* generate: the plan returned
    log                         \* generate: the log entries emitted

PlanVars ==
    <<snapshot, target_release, pos, pre, upgrade, post, counts, status, error, plan, log>>

vars ==
    <<OPENSTACK_TO_TRACK_MAPPING, TRACK_TO_OPENSTACK_MAPPING, app, ret, PlanVars>>

----------------------------------------------------------------------------
(* Bounds of the model. *)

\* Rows of openstack_to_track_mapping.csv that are loaded.
MaxRows == 2

----------------------------------------------------------------------------
(* The release catalog (cou.utils.openstack.OpenStackRelease). *)

\* The ordered catalog of release codenames; position is the ordinal.
OPENSTACK_CODENAMES ==
    <<"ussuri", "victoria", "wallaby", "xena", "yoga", "zed",
      "antelope", "bobcat", "caracal">>

\* The ordinal of a codename: its position in the catalog.
RECURSIVE IndexFrom(_, _)
IndexFrom(codename, i) ==
    IF i > Len(OPENSTACK_CODENAMES) THEN 0
    ELSE IF OPENSTACK_CODENAMES[i] = codename THEN i
    ELSE IndexFrom(codename, i + 1)

ReleaseIndex(codename) == IndexFrom(codename, 1)

\* OpenStackRelease.__gt__: ordering by catalog position.
ReleaseGt(a, b) == ReleaseIndex(a) > ReleaseIndex(b)

\* Python's max() over a non-empty list: the first maximal element.
RECURSIVE MaxFrom(_, _, _)
MaxFrom(releases, i, best) ==
    IF i > Len(releases) THEN best
    ELSE MaxFrom(releases, i + 1,
                 IF ReleaseGt(releases[i], best) THEN releases[i] ELSE best)

MaxRelease(releases) == MaxFrom(releases, 2, releases[1])

----------------------------------------------------------------------------
(* Strings. *)

\* "<track>/stable" as the f-string builds it.
StableChannel(track) == track \o <<"/", "stable">>

\* Index of the first "/" of a channel, or 0.
RECURSIVE FirstSlash(_, _)
FirstSlash(s, i) ==
    IF i > Len(s) THEN 0
    ELSE IF s[i] = "/" THEN i
    ELSE FirstSlash(s, i + 1)

\* OpenStackApplication._get_track_from_channel: channel.split("/", 1)[0].
get_track_from_channel(charm_channel) ==
    LET k == FirstSlash(charm_channel, 1)
    IN  IF k = 0 THEN charm_channel ELSE SubSeq(charm_channel, 1, k - 1)

DOC_URL == "https://docs.openstack.org/charm-guide/latest/project/charm-delivery.html"

\* The message of the ApplicationError both channel lookups raise.
CannotFindChannel(charm, codename, series) ==
    <<"Cannot find a suitable '", charm, "' charm channel for ", codename,
      " on series '", series, "'. Please take a look at the documentation: ",
      DOC_URL>>

----------------------------------------------------------------------------
(* Outcomes of a call. *)

Return(v) == [kind |-> "return", value |-> v]

Raise(exc, msg) == [kind |-> "raise", exc |-> exc, message |-> msg]

----------------------------------------------------------------------------
(* The track tables, as loaded from openstack_to_track_mapping.csv. *)

\* The charms, series, releases and track lists a table row is drawn from.
RowCharms == {"vault", "ceph-osd"}
RowSeries == {"jammy"}
RowReleases == {"yoga", "antelope"}
Track17 == <<"1.7">>
Track18 == <<"1.8">>
TrackLists ==
    {<<>>, <<Track17>>, <<Track18>>, <<Track17, Track18>>, <<Track18, Track17>>}

Rows ==
    [charm : RowCharms, series : RowSeries, release : RowReleases,
     tracks : TrackLists]

RowKey(r) == <<r.charm, r.series, r.release>>

\* The files that can be loaded: at most MaxRows rows, one row per key.
CSVs ==
    {rows \in UNION {[1..n -> Rows] : n \in 0..MaxRows} :
        \A i, j \in 1..Len(rows) : i # j => RowKey(rows[i]) # RowKey(rows[j])}

RowWithKey(rows, key) ==
    CHOOSE i \in 1..Len(rows) : RowKey(rows[i]) = key

\* The forward table: (charm, series, codename) -> the row's tracks.
Forward(rows) ==
    [key \in {RowKey(rows[i]) : i \in 1..Len(rows)} |->
        rows[RowWithKey(rows, key)].tracks]

TracksOf(r) == {r.tracks[k] : k \in 1..Len(r.tracks)}

\* The releases, in row order, of the rows from i on that list the track.
RECURSIVE ReleasesFrom(_, _, _)
ReleasesFrom(rows, key, i) ==
    IF i > Len(rows) THEN <<>>
    ELSE LET r == rows[i]
             hit == r.charm = key[1] /\ r.series = key[2] /\ key[3] \in TracksOf(r)
         IN  (IF hit THEN <<r.release>> ELSE <<>>) \o ReleasesFrom(rows, key, i + 1)

\* The reverse table: (charm, series, track) -> the compatible releases.
Reverse(rows) ==
    [key \in UNION {{<<rows[i].charm, rows[i].series, t>> : t \in TracksOf(rows[i])} :
                    i \in 1..Len(rows)} |->
        ReleasesFrom(rows, key, 1)]

----------------------------------------------------------------------------
(* AuxiliaryApplication. *)

\* is_valid_track without the bypass of charm-store applications.
is_valid_track_no_bypass(self, charm_channel) ==
    Return(<<self.charm, self.series, get_track_from_channel(charm_channel)>>
               \in DOMAIN TRACK_TO_OPENSTACK_MAPPING)

\* AuxiliaryApplication.is_valid_track
is_valid_track(self, charm_channel) ==
    IF self.is_from_charm_store
    THEN Return(TRUE)
    ELSE LET track == get_track_from_channel(charm_channel)
         IN  Return(<<self.charm, self.series, track>>
                        \in DOMAIN TRACK_TO_OPENSTACK_MAPPING)

\* possible_current_channels testing "tracks is not None" for "tracks".
possible_current_channels_empty_ok(self) ==
    LET key == <<self.charm, self.series, self.current_os_release>>
        tracks == OPENSTACK_TO_TRACK_MAPPING[key]
    IN  IF key \in DOMAIN OPENSTACK_TO_TRACK_MAPPING
        THEN Return([k \in 1..Len(tracks) |-> StableChannel(tracks[k])])
        ELSE Raise("ApplicationError",
                   CannotFindChannel(self.charm, self.current_os_release, self.series))

\* AuxiliaryApplication.possible_current_channels
possible_current_channels(self) ==
    LET key == <<self.charm, self.series, self.current_os_release>>
        found == key \in DOMAIN OPENSTACK_TO_TRACK_MAPPING
        tracks == OPENSTACK_TO_TRACK_MAPPING[key]
    IN  IF found /\ tracks # <<>>
        THEN Return([k \in 1..Len(tracks) |-> StableChannel(tracks[k])])
        ELSE Raise("ApplicationError",
                   CannotFindChannel(self.charm, self.current_os_release, self.series))

\* target_channel falling back to latest/stable for raising.
target_channel_fallback(self, target) ==
    LET key == <<self.charm, self.series, target>>
        found == key \in DOMAIN OPENSTACK_TO_TRACK_MAPPING
        tracks == OPENSTACK_TO_TRACK_MAPPING[key]
    IN  IF found /\ tracks # <<>>
        THEN Return(StableChannel(tracks[Len(tracks)]))
        ELSE Return(StableChannel(<<"latest">>))

\* target_channel taking tracks[0] for tracks[-1].
target_channel_first_track(self, target) ==
    LET key == <<self.charm, self.series, target>>
        found == key \in DOMAIN OPENSTACK_TO_TRACK_MAPPING
        tracks == OPENSTACK_TO_TRACK_MAPPING[key]
    IN  IF found /\ tracks # <<>>
        THEN Return(StableChannel(tracks[1]))
        ELSE Raise("ApplicationError",
                   CannotFindChannel(self.charm, target, self.series))

\* AuxiliaryApplication.target_channel
target_channel(self, target) ==
    LET key == <<self.charm, self.series, target>>
        found == key \in DOMAIN OPENSTACK_TO_TRACK_MAPPING
        tracks == OPENSTACK_TO_TRACK_MAPPING[key]
    IN  IF found /\ tracks # <<>>
        THEN Return(StableChannel(tracks[Len(tracks)]))
        ELSE Raise("ApplicationError",
                   CannotFindChannel(self.charm, target, self.series))

\* OpenStackRelease(codename): the release of the catalog with that codename.
OpenStackRelease(codename) ==
    IF ReleaseIndex(codename) = 0
    THEN Raise("ValueError", <<"OpenStack '", codename, "' is not in the catalog">>)
    ELSE Return(codename)

\* The exceptions a subscript of the reverse table by a missing key ends in:
\* KeyError of a dict, or ValueError of max() over the fresh list of a defaultdict.
MissingKeyErrors == {"KeyError", "ValueError"}

\* channel_codename taking the last listed release for the maximum.
channel_codename_last_listed(self) ==
    IF self.is_from_charm_store
    THEN {OpenStackRelease("ussuri")}
    ELSE LET key == <<self.charm, self.series, get_track_from_channel(self.channel)>>
         IN  IF key \notin DOMAIN TRACK_TO_OPENSTACK_MAPPING
             THEN {Raise(e, <<"no releases for the track">>) : e \in MissingKeyErrors}
             ELSE LET compatible_os_releases == TRACK_TO_OPENSTACK_MAPPING[key]
                  IN  IF compatible_os_releases = <<>>
                      THEN {Raise("ValueError", <<"max() arg is an empty sequence">>)}
                      ELSE {Return(compatible_os_releases[Len(compatible_os_releases)])}

\* AuxiliaryApplication.channel_codename: the outcomes the call can have.
channel_codename(self) ==
    IF self.is_from_charm_store
    THEN {OpenStackRelease("ussuri")}
    ELSE LET track == get_track_from_channel(self.channel)
             key == <<self.charm, self.series, track>>
         IN  IF key \notin DOMAIN TRACK_TO_OPENSTACK_MAPPING
             THEN {Raise(e, <<"no releases for the track">>) : e \in MissingKeyErrors}
             ELSE LET compatible_os_releases == TRACK_TO_OPENSTACK_MAPPING[key]
                  IN  IF compatible_os_releases = <<>>
                      THEN {Raise("ValueError", <<"max() arg is an empty sequence">>)}
                      ELSE {Return(MaxRelease(compatible_os_releases))}

----------------------------------------------------------------------------
(* The registry and the class attributes. *)

\* AppFactory.register_application: the class each charm is registered with.
AppClass(charm) ==
    CASE charm \in {"vault", "ceph-fs", "ceph-radosgw"} -> "AuxiliaryApplication"
      [] charm \in {"rabbitmq-server"} -> "RabbitMQServer"
      [] charm \in {"ceph-mon"} -> "CephMon"
      [] charm \in {"ovn-central", "ovn-dedicated-chassis"} -> "OvnPrincipal"
      [] charm \in {"mysql-innodb-cluster"} -> "MysqlInnodbCluster"
      [] charm \in {"ceph-osd"} -> "CephOSD"
      [] OTHER -> "OpenStackApplication"

RegisteredCharms ==
    {"vault", "ceph-fs", "ceph-radosgw", "rabbitmq-server", "ceph-mon",
     "ovn-central", "ovn-dedicated-chassis", "mysql-innodb-cluster", "ceph-osd"}

\* The defaults of OpenStackApplication, which the subclasses inherit.
BaseWaitTimeout == "STANDARD_IDLE_TIMEOUT"
BaseWaitForModel == FALSE

\* wait_timeout as the class of the charm resolves it.
wait_timeout(cls) ==
    CASE cls = "RabbitMQServer" -> "LONG_IDLE_TIMEOUT"
      [] cls = "CephMon" -> "LONG_IDLE_TIMEOUT"
      [] cls = "MysqlInnodbCluster" -> "LONG_IDLE_TIMEOUT"
      [] OTHER -> BaseWaitTimeout

\* wait_for_model with CephMon left at the inherited default.
wait_for_model_rabbitmq_only(cls) ==
    CASE cls = "RabbitMQServer" -> TRUE
      [] OTHER -> BaseWaitForModel

\* wait_for_model as the class of the charm resolves it.
wait_for_model(cls) ==
    CASE cls = "RabbitMQServer" -> TRUE
      [] cls = "CephMon" -> TRUE
      [] OTHER -> BaseWaitForModel

----------------------------------------------------------------------------
(* Pre-upgrade steps. *)

PreUpgradeStep(description, coro) ==
    [phase |-> "pre", description |-> description, coro |-> coro]

REQUIRE_OSD_RELEASE ==
    "Ensure that the 'require-osd-release' option matches the 'ceph-osd' version"

\* Workload versions are in hundredths: 2203 is "22.03", the lowest OVN
\* workload version supported.
OvnFloor == 2203

\* validate_ovn_support(version): fails below the floor.
validate_ovn_support(version) ==
    IF version < OvnFloor
    THEN Raise("ApplicationError",
               <<"OVN versions lower than 22.03 are not supported: ",
                 ToString(version)>>)
    ELSE Return(<<>>)

\* CephMon._get_change_require_osd_release_step
get_change_require_osd_release_step(self) ==
    IF Len(self.units) = 0
    THEN Raise("ValueError", <<"not enough values to unpack">>)
    ELSE Return(PreUpgradeStep(REQUIRE_OSD_RELEASE,
                    <<"set_require_osd_release_option", self.units[1].name>>))

\* The outcome of a method with whether it called the base class's method.
Derived(out, super_called) == [out |-> out, super_called |-> super_called]

\* CephMon.pre_upgrade_steps with the step put before the base steps.
CephMon_pre_upgrade_steps_step_first(self, target, super_out) ==
    IF super_out.kind = "raise"
    THEN Derived(super_out, TRUE)
    ELSE LET step == get_change_require_osd_release_step(self)
         IN  IF step.kind = "raise"
             THEN Derived(step, TRUE)
             ELSE Derived(Return(<<step.value>> \o super_out.value), TRUE)

\* CephMon.pre_upgrade_steps; super_out is what the base method ends in.
CephMon_pre_upgrade_steps(self, target, super_out) ==
    IF super_out.kind = "raise"
    THEN Derived(super_out, TRUE)
    ELSE LET step == get_change_require_osd_release_step(self)
         IN  IF step.kind = "raise"
             THEN Derived(step, TRUE)
             ELSE Derived(Return(super_out.value \o <<step.value>>), TRUE)

\* The outcome of the first validation that fails, from unit i on.
RECURSIVE ValidateFrom(_, _)
ValidateFrom(units, i) ==
    IF i > Len(units) THEN Return(<<>>)
    ELSE LET v == validate_ovn_support(units[i].workload_version)
         IN  IF v.kind = "raise" THEN v ELSE ValidateFrom(units, i + 1)

\* OvnPrincipal.pre_upgrade_steps validating the first unit only.
OvnPrincipal_pre_upgrade_steps_first_unit(self, target, super_out) ==
    LET v == IF Len(self.units) = 0 THEN Return(<<>>)
             ELSE validate_ovn_support(self.units[1].workload_version)
    IN  IF v.kind = "raise"
        THEN Derived(v, FALSE)
        ELSE Derived(super_out, TRUE)

\* OvnPrincipal.pre_upgrade_steps
OvnPrincipal_pre_upgrade_steps(self, target, super_out) ==
    LET v == ValidateFrom(self.units, 1)
    IN  IF v.kind = "raise"
        THEN Derived(v, FALSE)
        ELSE Derived(super_out, TRUE)

\* pre_upgrade_steps as the class of the application resolves it.
pre_upgrade_steps(self, target, super_out) ==
    CASE AppClass(self.charm) = "CephMon" ->
            CephMon_pre_upgrade_steps(self, target, super_out)
      [] AppClass(self.charm) = "OvnPrincipal" ->
            OvnPrincipal_pre_upgrade_steps(self, target, super_out)
      [] OTHER -> Derived(super_out, TRUE)

\* What OpenStackApplication.pre_upgrade_steps can end in: the common steps
\* (none, or the checks of the channel and packages), or an ApplicationError.
BaseStepLists ==
    {<<>>,
     <<PreUpgradeStep("Verify that all units are in idle state", <<"wait">>)>>,
     <<PreUpgradeStep("Upgrade software packages from the current APT repositories",
                      <<"upgrade_packages">>),
       PreUpgradeStep("Refresh the charm to the latest revision of the channel",
                      <<"refresh">>)>>}

BaseOutcomes ==
    {Return(l) : l \in BaseStepLists}
        \cup {Raise("ApplicationError", <<"Cannot refresh the charm">>)}

----------------------------------------------------------------------------
(* The applications and arguments the calls are made on. *)

\* Units deployed per application.
MaxUnits == 2

AppCharms == {"vault", "ceph-osd"}
AppSeries == {"focal", "jammy"}
Channels ==
    {<<"1.7", "/", "stable">>, <<"1.8", "/", "edge">>, <<"latest">>}
CurrentReleases == {"ussuri", "yoga"}
Targets == {"yoga", "antelope", "bobcat"}
WorkloadVersions == {2003, 2203, 2309}

Unit(charm, i, version) ==
    [name |-> charm \o "/" \o ToString(i - 1), workload_version |-> version]

\* The units of an application of the charm: numbered from 0, any versions.
UnitLists(charm) ==
    UNION {{[i \in 1..n |-> Unit(charm, i, versions[i])] :
                versions \in [1..n -> WorkloadVersions]} : n \in 0..MaxUnits}

App(charm, series, channel, store, current, units) ==
    [charm |-> charm, series |-> series, channel |-> channel,
     is_from_charm_store |-> store, current_os_release |-> current,
     units |-> units]

\* The applications whose channel and release are resolved.
Apps ==
    {App(charm, series, channel, store, current, <<Unit(charm, 1, 2203)>>) :
        charm \in AppCharms, series \in AppSeries, channel \in Channels,
        store \in BOOLEAN, current \in CurrentReleases}

\* The applications whose steps are derived: every registered charm.
StepApps ==
    UNION {{App(charm, "jammy", <<"latest", "/", "stable">>, FALSE, "yoga", units) :
                units \in UnitLists(charm)} : charm \in RegisteredCharms}

Call(op, arg, out, super_called) ==
    [op |-> op, arg |-> arg, out |-> out, super_called |-> super_called]

NoCall == [op |-> "none"]

\* No plan is being generated.
NoPlan ==
    /\ snapshot = <<>>
    /\ target_release = "antelope"
    /\ pos = 1
    /\ pre = <<>>
    /\ upgrade = <<>>
    /\ post = <<>>
    /\ counts = <<>>
    /\ status = "idle"
    /\ error = <<>>
    /\ plan = <<>>
    /\ log = <<>>

Init ==
    /\ \E rows \in CSVs :
        /\ OPENSTACK_TO_TRACK_MAPPING = Forward(rows)
        /\ TRACK_TO_OPENSTACK_MAPPING = Reverse(rows)
    /\ app \in Apps
    /\ ret = NoCall
    /\ NoPlan

Frame == <<OPENSTACK_TO_TRACK_MAPPING, TRACK_TO_OPENSTACK_MAPPING, app, PlanVars>>

IsValidTrack ==
    /\ \E charm_channel \in Channels :
        ret' = Call("is_valid_track", charm_channel,
                    is_valid_track(app, charm_channel), FALSE)
    /\ UNCHANGED Frame

PossibleCurrentChannels ==
    /\ ret' = Call("possible_current_channels", <<>>,
                   possible_current_channels(app), FALSE)
    /\ UNCHANGED Frame

TargetChannel ==
    /\ \E target \in Targets :
        ret' = Call("target_channel", target, target_channel(app, target), FALSE)
    /\ UNCHANGED Frame

ChannelCodename ==
    /\ \E out \in channel_codename(app) :
        ret' = Call("channel_codename", <<>>, out, FALSE)
    /\ UNCHANGED Frame

Next ==
    \/ IsValidTrack
    \/ PossibleCurrentChannels
    \/ TargetChannel
    \/ ChannelCodename

Spec == Init /\ [][Next]_vars

----------------------------------------------------------------------------
(* Step derivation of every registered charm. *)

InitSteps ==
    /\ OPENSTACK_TO_TRACK_MAPPING = Forward(<<>>)
    /\ TRACK_TO_OPENSTACK_MAPPING = Reverse(<<>>)
    /\ app \in StepApps
    /\ ret = NoCall
    /\ NoPlan

PreUpgradeSteps ==
    /\ \E target \in Targets, super_out \in BaseOutcomes :
        LET d == pre_upgrade_steps(app, target, super_out)
        IN  ret' = Call("pre_upgrade_steps", <<target, super_out>>, d.out,
                        d.super_called)
    /\ UNCHANGED Frame

\* The wait the upgrade step of the application is planned with.
WaitPolicy ==
    /\ ret' = Call("wait_policy", <<>>,
                   Return([wait_timeout |-> wait_timeout(AppClass(app.charm)),
                           wait_for_model |-> wait_for_model(AppClass(app.charm))]),
                   FALSE)
    /\ UNCHANGED Frame

NextSteps ==
    \/ PreUpgradeSteps
    \/ WaitPolicy

SpecSteps == InitSteps /\ [][NextSteps]_vars

----------------------------------------------------------------------------
(* Plan generation: generate_plan over the deployed applications. *)

\* Applications of a plan.
MaxApps == 2

\* Hypervisors of the nova-compute application.
MaxHypervisors == 3

\* Instances a hypervisor is seen to run.
MaxCount == 1

\* The applications on every hypervisor and its availability zone, as the
\* sample model of the plan tests has them.
Machine(machine_id) ==
    [machine_id |-> machine_id, apps |-> <<"nova-compute", "ovn-chassis">>,
     az |-> "az-0"]

Hypervisors == 1..MaxHypervisors

NovaCompute ==
    App("nova-compute", "jammy", <<"latest", "/", "stable">>, FALSE, "yoga",
        [i \in Hypervisors |-> Unit("nova-compute", i, 2203)])

IsHypervisorApp(self) == self.charm = "nova-compute"

PlanStep(self, phase, description, unit) ==
    [app |-> self.charm, phase |-> phase, description |-> description,
     unit |-> unit]

\* OpenStackApplication.pre_upgrade_steps: the steps common to all applications.
base_pre_upgrade_steps(self, goal) ==
    Return(<<PreUpgradeStep("Verify that all units are in idle state", <<"wait">>)>>)

\* The smallest identifier first.
RECURSIVE SortAsc(_)
SortAsc(ids) ==
    IF ids = {} THEN <<>>
    ELSE LET m == CHOOSE x \in ids : \A y \in ids : x <= y
         IN  <<m>> \o SortAsc(ids \ {m})

\* The largest identifier first.
RECURSIVE SortDesc(_)
SortDesc(ids) ==
    IF ids = {} THEN <<>>
    ELSE LET m == CHOOSE x \in ids : \A y \in ids : x >= y
         IN  <<m>> \o SortDesc(ids \ {m})

\* A skip report in descending order of identifier.
SkipReportDescending(seen) ==
    LET ids == SortDesc({i \in DOMAIN seen : seen[i] # 0})
    IN  [k \in 1..Len(ids) |-> Machine(ids[k])]

\* The workload guard's report: the hypervisors with instances, ascending.
SkipReport(seen) ==
    LET ids == SortAsc({i \in DOMAIN seen : seen[i] # 0})
    IN  [k \in 1..Len(ids) |-> Machine(ids[k])]

\* The workload guard's choice: an upgrade step per hypervisor without instances.
HypervisorUpgradeSteps(self, seen) ==
    LET ids == SortAsc({i \in DOMAIN seen : seen[i] = 0})
    IN  [k \in 1..Len(ids) |->
            PlanStep(self, "upgrade", "Upgrade the hypervisor", ids[k])]

AsPlanSteps(self, steps) ==
    [k \in 1..Len(steps) |-> PlanStep(self, steps[k].phase, steps[k].description, 0)]

\* The steps derived for one application, or the error its derivation raises.
\* seen is the instance count read per hypervisor.
DeriveSteps(self, goal, seen) ==
    LET d == pre_upgrade_steps(self, goal, base_pre_upgrade_steps(self, goal))
        channel == target_channel(self, goal)
    IN  IF d.out.kind = "raise" THEN d.out
        ELSE IF IsHypervisorApp(self)
        THEN Return([pre |-> AsPlanSteps(self, d.out.value),
                     upgrade |-> HypervisorUpgradeSteps(self, seen),
                     post |-> <<PlanStep(self, "post", "Verify the workload", 0)>>])
        ELSE IF channel.kind = "raise" THEN channel
        ELSE Return([pre |-> AsPlanSteps(self, d.out.value),
                     upgrade |-> <<PlanStep(self, "upgrade", channel.value, 0)>>,
                     post |-> <<PlanStep(self, "post", "Verify the workload", 0)>>])

SKIPPED_LOG == "Skipped (non-empty) hypervisors: "

\* The rows of the table for the target of the plan, one per auxiliary charm.
PlanRows ==
    <<[charm |-> "vault", series |-> "jammy", release |-> "antelope",
       tracks |-> <<Track17, Track18>>],
      [charm |-> "rabbitmq-server", series |-> "jammy", release |-> "antelope",
       tracks |-> <<<<"3.9">>>>],
      [charm |-> "ovn-central", series |-> "jammy", release |-> "antelope",
       tracks |-> <<<<"23.03">>>>]>>

\* The tables a plan is generated with: the rows of any of the charms.
PlanCSVs ==
    {SelectSeq(PlanRows, LAMBDA r : r.charm \in present) :
        present \in SUBSET {"vault", "rabbitmq-server", "ovn-central"}}

\* The applications a plan is generated for.
PlanApps ==
    {NovaCompute}
        \cup {App(charm, "jammy", <<"latest", "/", "stable">>, FALSE, "yoga",
                  <<Unit(charm, 1, 2203)>>) : charm \in {"vault", "rabbitmq-server"}}
        \cup {App("ovn-central", "jammy", <<"latest", "/", "stable">>, FALSE, "yoga",
                  <<Unit("ovn-central", 1, version)>>) : version \in {2003, 2203}}

\* The snapshots: up to MaxApps applications, each charm deployed once.
Snapshots ==
    {apps \in UNION {[1..n -> PlanApps] : n \in 0..MaxApps} :
        \A i, j \in 1..Len(apps) : i # j => apps[i].charm # apps[j].charm}

InitPlan ==
    /\ \E rows \in PlanCSVs :
        /\ OPENSTACK_TO_TRACK_MAPPING = Forward(rows)
        /\ TRACK_TO_OPENSTACK_MAPPING = Reverse(rows)
    /\ app = NovaCompute
    /\ ret = NoCall
    /\ snapshot \in Snapshots
    /\ target_release = "antelope"
    /\ pos = 1
    /\ pre = <<>>
    /\ upgrade = <<>>
    /\ post = <<>>
    /\ counts = <<>>
    /\ status = "planning"
    /\ error = <<>>
    /\ plan = <<>>
    /\ log = <<>>

PlanFrame ==
    <<OPENSTACK_TO_TRACK_MAPPING, TRACK_TO_OPENSTACK_MAPPING, app, ret, snapshot,
      target_release>>

\* The steps of the next application are derived and kept.
DeriveApp ==
    /\ status = "planning"
    /\ pos <= Len(snapshot)
    /\ \E seen \in [Hypervisors -> 0..MaxCount] :
        LET self == snapshot[pos]
            out == DeriveSteps(self, target_release, seen)
        IN  /\ out.kind = "return"
            /\ counts' = IF IsHypervisorApp(self) THEN seen ELSE counts
            /\ pre' = pre \o out.value.pre
            /\ upgrade' = upgrade \o out.value.upgrade
            /\ post' = post \o out.value.post
            /\ log' = IF IsHypervisorApp(self) /\ SkipReport(seen) # <<>>
                      THEN Append(log, [level |-> "INFO", message |-> SKIPPED_LOG,
                                        machines |-> SkipReport(seen)])
                      ELSE log
    /\ pos' = pos + 1
    /\ UNCHANGED <<PlanFrame, status, error, plan>>

\* The derivation of the next application raises: generation ends with its error.
AbortPlan ==
    /\ status = "planning"
    /\ pos <= Len(snapshot)
    /\ \E seen \in [Hypervisors -> 0..MaxCount] :
        LET self == snapshot[pos]
            out == DeriveSteps(self, target_release, seen)
        IN  /\ out.kind = "raise"
            /\ error' = [app |-> self.charm, pos |-> pos, out |-> out]
    /\ status' = "aborted"
    /\ pre' = <<>>
    /\ upgrade' = <<>>
    /\ post' = <<>>
    /\ UNCHANGED <<PlanFrame, pos, counts, plan, log>>

\* Every application is derived: the phases are joined into the plan.
AssemblePlan ==
    /\ status = "planning"
    /\ pos > Len(snapshot)
    /\ plan' = pre \o upgrade \o post
    /\ status' = "done"
    /\ UNCHANGED <<PlanFrame, pos, pre, upgrade, post, counts, error, log>>

NextPlan ==
    \/ DeriveApp
    \/ AbortPlan
    \/ AssemblePlan

SpecPlan == InitPlan /\ [][NextPlan]_vars

----------------------------------------------------------------------------
(* Channel and release resolution: the properties of Spec. *)

Elems(seq) == {seq[k] : k \in 1..Len(seq)}

Returned(v) == ret.out.kind = "return" /\ ret.out.value = v

Raised(exc) == ret.out.kind = "raise" /\ ret.out.exc = exc

\* The key of the reverse table the application's channel resolves to.
ChannelKey == <<app.charm, app.series, get_track_from_channel(app.channel)>>

\* The key of the forward table for a release codename.
ReleaseKey(codename) == <<app.charm, app.series, codename>>

HasTracks(codename) ==
    /\ ReleaseKey(codename) \in DOMAIN OPENSTACK_TO_TRACK_MAPPING
    /\ OPENSTACK_TO_TRACK_MAPPING[ReleaseKey(codename)] # <<>>

HasReleases ==
    /\ ChannelKey \in DOMAIN TRACK_TO_OPENSTACK_MAPPING
    /\ TRACK_TO_OPENSTACK_MAPPING[ChannelKey] # <<>>

\* C1: on an application installed from the charm store, is_valid_track returns
\* True for every channel and every content of the tables, and channel_codename
\* returns 'ussuri' without failing, which no release of the catalog precedes.
C1_CharmStoreBaseline ==
    app.is_from_charm_store =>
        /\ ret.op = "is_valid_track" => Returned(TRUE)
        /\ ret.op = "channel_codename" =>
            /\ Returned("ussuri")
            /\ \A k \in 1..Len(OPENSTACK_CODENAMES) :
                ~ReleaseGt(ret.out.value, OPENSTACK_CODENAMES[k])

\* A charm-store application whose channel has no entry in the reverse table is
\* resolved to 'ussuri'.
C1_Witness ==
    /\ app.is_from_charm_store
    /\ ChannelKey \notin DOMAIN TRACK_TO_OPENSTACK_MAPPING
    /\ TRACK_TO_OPENSTACK_MAPPING # Reverse(<<>>)
    /\ ret.op = "channel_codename"
    /\ Returned("ussuri")

\* C2: on an application not from the charm store whose channel's track maps to a
\* non-empty list of releases, channel_codename returns a release of that list
\* that no release of the list exceeds in catalog position, whatever the order
\* of the list.
C2_LatestCompatibleRelease ==
    (ret.op = "channel_codename" /\ ~app.is_from_charm_store /\ HasReleases) =>
        /\ ret.out.kind = "return"
        /\ ret.out.value \in Elems(TRACK_TO_OPENSTACK_MAPPING[ChannelKey])
        /\ \A r \in Elems(TRACK_TO_OPENSTACK_MAPPING[ChannelKey]) :
            ReleaseIndex(r) <= ReleaseIndex(ret.out.value)

\* The track maps to antelope then yoga: antelope is returned, which is listed
\* first and sorts first as a string, and is the later release of the catalog.
C2_Witness ==
    /\ ~app.is_from_charm_store
    /\ HasReleases
    /\ TRACK_TO_OPENSTACK_MAPPING[ChannelKey] = <<"antelope", "yoga">>
    /\ ret.op = "channel_codename"
    /\ Returned("antelope")

\* C3: target_channel returns '<last track>/stable' of the forward table's entry
\* for (charm, series, target) when that entry has tracks, and raises
\* ApplicationError when the entry is absent or empty, whatever the channel and
\* provenance of the application.
C3_TargetChannel ==
    ret.op = "target_channel" =>
        IF HasTracks(ret.arg)
        THEN LET tracks == OPENSTACK_TO_TRACK_MAPPING[ReleaseKey(ret.arg)]
             IN  Returned(tracks[Len(tracks)] \o <<"/", "stable">>)
        ELSE Raised("ApplicationError")

\* The target has two tracks, 1.7 then 1.8, and 1.8/stable is returned on a
\* charm-store application whose own channel is on another track.
C3_Witness ==
    /\ ret.op = "target_channel"
    /\ HasTracks(ret.arg)
    /\ OPENSTACK_TO_TRACK_MAPPING[ReleaseKey(ret.arg)] = <<Track17, Track18>>
    /\ app.is_from_charm_store
    /\ app.channel = <<"latest">>
    /\ Returned(<<"1.8", "/", "stable">>)

\* C4: possible_current_channels returns one '<track>/stable' per track of the
\* forward table's entry for (charm, series, current release), in the table's
\* order, and with no tracks there raises ApplicationError with a message that
\* carries the charm, the series and the release codename.
C4_PossibleCurrentChannels ==
    ret.op = "possible_current_channels" =>
        IF HasTracks(app.current_os_release)
        THEN LET tracks ==
                    OPENSTACK_TO_TRACK_MAPPING[ReleaseKey(app.current_os_release)]
             IN  /\ ret.out.kind = "return"
                 /\ Len(ret.out.value) = Len(tracks)
                 /\ \A k \in 1..Len(tracks) :
                        ret.out.value[k] = tracks[k] \o <<"/", "stable">>
        ELSE /\ Raised("ApplicationError")
             /\ {app.charm, app.series, app.current_os_release}
                    \subseteq Elems(ret.out.message)

\* The entry of the current release is there with no track: the call raises.
C4_Witness ==
    /\ ret.op = "possible_current_channels"
    /\ ReleaseKey(app.current_os_release) \in DOMAIN OPENSTACK_TO_TRACK_MAPPING
    /\ OPENSTACK_TO_TRACK_MAPPING[ReleaseKey(app.current_os_release)] = <<>>
    /\ Raised("ApplicationError")

\* C10: on an application not from the charm store whose channel's track has no
\* release in the reverse table (no entry, or an empty one), channel_codename
\* raises ApplicationError and nothing else.
C10_UnknownTrackRaisesApplicationError ==
    (ret.op = "channel_codename" /\ ~app.is_from_charm_store /\ ~HasReleases) =>
        Raised("ApplicationError")

----------------------------------------------------------------------------
(* Step derivation: the properties of SpecSteps. *)

IsCall(op, cls) == ret.op = op /\ AppClass(app.charm) = cls

BelowFloor(i) == app.units[i].workload_version < OvnFloor

\* The first unit, in the order of the application's units, below the floor.
FirstBelowFloor ==
    CHOOSE i \in 1..Len(app.units) :
        BelowFloor(i) /\ \A j \in 1..(i - 1) : ~BelowFloor(j)

\* C6 as stated: pre_upgrade_steps of ovn-central and ovn-dedicated-chassis,
\* with a unit below the supported floor, raises an error that identifies that
\* unit and its version, without computing the base steps; with every unit at
\* or above the floor it returns exactly the base steps.
C6_OvnFloorErrorNamesUnit ==
    IsCall("pre_upgrade_steps", "OvnPrincipal") =>
        IF \E i \in 1..Len(app.units) : BelowFloor(i)
        THEN /\ Raised("ApplicationError")
             /\ ~ret.super_called
             /\ ToString(app.units[FirstBelowFloor].workload_version)
                    \in Elems(ret.out.message)
             /\ app.units[FirstBelowFloor].name \in Elems(ret.out.message)
        ELSE ret.out = ret.arg[2]

\* C6, amended: with a unit below the floor, pre_upgrade_steps raises the error
\* the version check raises for the workload version of the first such unit, an
\* error made from that version alone and naming no unit, without computing the
\* base steps; with every unit at or above the floor it returns exactly what
\* the base method returns.
C6_OvnFloorErrorOfVersion ==
    IsCall("pre_upgrade_steps", "OvnPrincipal") =>
        IF \E i \in 1..Len(app.units) : BelowFloor(i)
        THEN /\ Raised("ApplicationError")
             /\ ~ret.super_called
             /\ ret.out =
                    validate_ovn_support(app.units[FirstBelowFloor].workload_version)
             /\ \A i \in 1..Len(app.units) :
                    app.units[i].name \notin Elems(ret.out.message)
        ELSE ret.out = ret.arg[2] /\ ret.super_called

\* ovn-central whose first unit is at the floor and whose second is below it:
\* the call raises and the base steps, which were not empty, are not computed.
C6_Witness ==
    /\ IsCall("pre_upgrade_steps", "OvnPrincipal")
    /\ Len(app.units) = 2
    /\ ~BelowFloor(1)
    /\ BelowFloor(2)
    /\ ret.arg[2].kind = "return"
    /\ ret.arg[2].value # <<>>
    /\ Raised("ApplicationError")
    /\ ~ret.super_called

IsLongModelWait ==
    /\ ret.out.value.wait_for_model
    /\ ret.out.value.wait_timeout = "LONG_IDLE_TIMEOUT"

\* C7 as stated: exactly rabbitmq-server, ovn-central and ovn-dedicated-chassis
\* wait for the whole model with LONG_IDLE_TIMEOUT.
C7_RabbitMQAndOvnWaitForModel ==
    ret.op = "wait_policy" =>
        (IsLongModelWait <=>
            app.charm \in {"rabbitmq-server", "ovn-central", "ovn-dedicated-chassis"})

\* C7, amended: exactly rabbitmq-server and ceph-mon wait for the whole model,
\* both with LONG_IDLE_TIMEOUT; every other registered charm, ovn-central and
\* ovn-dedicated-chassis among them, waits for its own units only, and of those
\* only mysql-innodb-cluster has LONG_IDLE_TIMEOUT.
C7_RabbitMQAndCephMonWaitForModel ==
    ret.op = "wait_policy" =>
        /\ ret.out.value.wait_for_model <=>
            app.charm \in {"rabbitmq-server", "ceph-mon"}
        /\ ret.out.value.wait_timeout = "LONG_IDLE_TIMEOUT" <=>
            app.charm \in {"rabbitmq-server", "ceph-mon", "mysql-innodb-cluster"}

\* ceph-mon is planned with the wait for the whole model.
C7_Witness ==
    /\ ret.op = "wait_policy"
    /\ app.charm = "ceph-mon"
    /\ IsLongModelWait

IsReconciliation(step) == step.description = REQUIRE_OSD_RELEASE

ReconciliationAt(steps) == {k \in 1..Len(steps) : IsReconciliation(steps[k])}

\* C8 as stated: the list ceph-mon's pre_upgrade_steps returns has exactly one
\* 'require-osd-release' step, which precedes every other step of the list.
C8_ReconciliationStepFirst ==
    (IsCall("pre_upgrade_steps", "CephMon") /\ ret.out.kind = "return") =>
        ReconciliationAt(ret.out.value) = {1}

\* C8, amended: the list ceph-mon's pre_upgrade_steps returns is the base steps,
\* in their order, followed by exactly one 'require-osd-release' step, on the
\* application's first unit: the step comes after every other step of the list.
C8_ReconciliationStepLast ==
    (IsCall("pre_upgrade_steps", "CephMon") /\ ret.out.kind = "return") =>
        LET steps == ret.out.value
            base == ret.arg[2].value
        IN  /\ ReconciliationAt(steps) = {Len(steps)}
            /\ Len(steps) = Len(base) + 1
            /\ SubSeq(steps, 1, Len(base)) = base
            /\ steps[Len(steps)].coro =
                <<"set_require_osd_release_option", app.units[1].name>>

\* ceph-mon with two units of different versions and two base steps: the
\* 'require-osd-release' step is the third of three.
C8_Witness ==
    /\ IsCall("pre_upgrade_steps", "CephMon")
    /\ Len(app.units) = 2
    /\ app.units[1].workload_version # app.units[2].workload_version
    /\ ret.out.kind = "return"
    /\ Len(ret.out.value) = 3
    /\ ReconciliationAt(ret.out.value) = {3}

----------------------------------------------------------------------------
(* Plan generation: the properties of SpecPlan. *)

Positions == 1..Len(snapshot)

HypervisorPositions == {i \in Positions : IsHypervisorApp(snapshot[i])}

UpgradedUnits ==
    {plan[k].unit : k \in {n \in 1..Len(plan) :
        plan[n].phase = "upgrade" /\ plan[n].app = "nova-compute"}}

\* The machines of the skip report that was logged, none when nothing was.
Reported == IF log = <<>> THEN <<>> ELSE log[1].machines

\* C5: whatever the instance counts of the hypervisors, the nova-compute
\* application never aborts the generation; the finished plan has an upgrade
\* step for a hypervisor exactly when its count is zero, and the log entry
\* 'Skipped (non-empty) hypervisors' lists exactly the hypervisors with a
\* nonzero count, once each, with their applications and zone, in ascending
\* order of identifier.
C5_WorkloadGuard ==
    /\ status = "aborted" => error.pos \notin HypervisorPositions
    /\ (status = "done" /\ HypervisorPositions # {}) =>
        /\ \A u \in Hypervisors : u \in UpgradedUnits <=> counts[u] = 0
        /\ Len(log) <= 1
        /\ \A k \in 1..Len(log) :
            log[k].level = "INFO" /\ log[k].message = SKIPPED_LOG
        /\ {Reported[k].machine_id : k \in 1..Len(Reported)} =
                {u \in Hypervisors : counts[u] # 0}
        /\ \A k \in 1..Len(Reported) :
            /\ Reported[k].apps = <<"nova-compute", "ovn-chassis">>
            /\ Reported[k].az = "az-0"
        /\ \A k, l \in 1..Len(Reported) :
            k < l => Reported[k].machine_id < Reported[l].machine_id

\* The counts 1, 0, 1 of the plan test: hypervisors 1 and 3 are reported, in
\* that order, and only hypervisor 2 is upgraded.
C5_Witness ==
    /\ status = "done"
    /\ HypervisorPositions # {}
    /\ counts[1] = 1 /\ counts[2] = 0 /\ counts[3] = 1
    /\ Len(Reported) = 2
    /\ Reported[1].machine_id = 1
    /\ Reported[2].machine_id = 3
    /\ UpgradedUnits = {2}

\* The derivation of the application raises an ApplicationError: a unit of an
\* OVN principal is below the floor, or the forward table has no track for the
\* target of an application that is not the hypervisors'.
Blocking(self) ==
    \/ /\ AppClass(self.charm) = "OvnPrincipal"
       /\ \E i \in 1..Len(self.units) : self.units[i].workload_version < OvnFloor
    \/ /\ ~IsHypervisorApp(self)
       /\ LET key == <<self.charm, self.series, target_release>>
          IN  \/ key \notin DOMAIN OPENSTACK_TO_TRACK_MAPPING
              \/ OPENSTACK_TO_TRACK_MAPPING[key] = <<>>

BlockingPositions == {i \in Positions : Blocking(snapshot[i])}

PhaseRank(phase) ==
    CASE phase = "pre" -> 1 [] phase = "upgrade" -> 2 [] phase = "post" -> 3

PositionOf(charm) == CHOOSE i \in Positions : snapshot[i].charm = charm

StepsOf(i, phase) ==
    {k \in 1..Len(plan) :
        plan[k].app = snapshot[i].charm /\ plan[k].phase = phase}

\* C9: generation is fail-fast. It aborts exactly at the first application, in
\* declaration order, whose derivation raises, with that application's
\* ApplicationError and no plan and no step kept; otherwise the plan returned
\* has steps of every application, every pre-upgrade step before every upgrade
\* step before every post-upgrade step, in declaration order within a phase.
\* Instances on a hypervisor never abort the generation.
C9_FailFast ==
    /\ \A i \in BlockingPositions : pos <= i
    /\ status = "aborted" =>
        /\ BlockingPositions # {}
        /\ error.pos = pos
        /\ \A i \in BlockingPositions : error.pos <= i
        /\ error.pos \in BlockingPositions
        /\ error.app = snapshot[error.pos].charm
        /\ error.out.kind = "raise" /\ error.out.exc = "ApplicationError"
        /\ error.pos \notin HypervisorPositions
        /\ pre = <<>> /\ upgrade = <<>> /\ post = <<>>
    /\ status # "done" => plan = <<>>
    /\ status = "done" =>
        /\ BlockingPositions = {}
        /\ \A k, l \in 1..Len(plan) : k < l =>
            \/ PhaseRank(plan[k].phase) < PhaseRank(plan[l].phase)
            \/ /\ plan[k].phase = plan[l].phase
               /\ PositionOf(plan[k].app) <= PositionOf(plan[l].app)
        /\ \A i \in Positions :
            /\ StepsOf(i, "pre") # {}
            /\ StepsOf(i, "post") # {}
            /\ i \notin HypervisorPositions => Cardinality(StepsOf(i, "upgrade")) = 1

\* The hypervisors come first and some run instances; the second application
\* has no track for the target, and the generation aborts on it, with no plan.
C9_Witness ==
    /\ status = "aborted"
    /\ Len(snapshot) = 2
    /\ IsHypervisorApp(snapshot[1])
    /\ \E u \in Hypervisors : counts[u] # 0
    /\ error.pos = 2
    /\ plan = <<>>

====
